---- MODULE Spec2Model ----
(***************************************************************************)
(* Model of the FastAPI item service: the bearer-token guard of            *)
(* app/core/auth.py, the in-memory item registry of app/api/routes.py and  *)
(* the unguarded endpoints of app/api/routes.py and app/main.py.           *)
(*                                                                         *)
(* Optional[str] values are sequences: None is <<>>, the string s is       *)
(* <<s>>.  Prices are floats that the code only stores and returns; they   *)
(* are written in hundredths (999 is 9.99).                                *)
(***************************************************************************)
EXTENDS Integers, Sequences, FiniteSets, TLC

VARIABLES
    settings,      \* config.settings: ENABLE_API_KEY_AUTH, API_KEY (fixed at start)
    items_db,      \* routes.items_db: the list of Item
    last,          \* the request handled by the latest step and its response
    created_ids,   \* history: the ids returned by create_item, in call order
    deleted,       \* history: TRUE once a delete_item call has succeeded
    inflight       \* the requests the server is handling at once, per client

vars == <<settings, items_db, last, created_ids, deleted, inflight>>

\* ---------------------------------------------------------------- bounds

\* The number of create_item calls in one run.
MaxCreates == 3

\* ---------------------------------------------------------------- values

None == <<>>

Some(s) == <<s>>

\* Python truthiness of an Optional[str]: None and "" are falsy.
Falsy(o) == o = None \/ o = Some("")

\* The values of settings.API_KEY the model draws from.
ApiKeys == {None, Some(""), Some("secret")}

\* config.Settings restricted to the two fields auth.py reads.
Settings == [ENABLE_API_KEY_AUTH : BOOLEAN, API_KEY : ApiKeys]

\* What HTTPBearer(auto_error=False) hands to get_api_key: None, or the
\* credentials of an "Authorization: Bearer <token>" header.
Credentials == {None, Some("secret"), Some("wrong"), Some("secre")}

\* Request bodies of POST /items and PUT /items/{item_id}.
ItemCreate ==
    { [name |-> "Widget",  description |-> "A widget", price |-> 999],
      [name |-> "Widget2", description |-> "Updated",  price |-> 1250] }

\* Path parameters item_id the model draws from.
ItemIds == 0 .. MaxCreates + 1

\* Item(id=..., **item.dict())
Item(id, item) ==
    [id |-> id, name |-> item.name, description |-> item.description,
     price |-> item.price]

\* ---------------------------------------------------------------- auth.py

APIKeyError ==
    [status_code |-> 401, detail |-> "Invalid or missing API key",
     headers |-> "WWW-Authenticate: Bearer"]

\* Mutant: a missing Authorization header is let through.
get_api_key_missing_ok(credentials) ==
    IF ~settings.ENABLE_API_KEY_AUTH \/ Falsy(settings.API_KEY)
    THEN [ok |-> TRUE, api_key |-> "bypass"]
    ELSE IF credentials = None
    THEN [ok |-> TRUE, api_key |-> "bypass"]
    ELSE IF credentials[1] # settings.API_KEY[1]
    THEN [ok |-> FALSE, error |-> APIKeyError]
    ELSE [ok |-> TRUE, api_key |-> credentials[1]]

get_api_key(credentials) ==
    IF ~settings.ENABLE_API_KEY_AUTH \/ Falsy(settings.API_KEY)
    THEN [ok |-> TRUE, api_key |-> "bypass"]
    ELSE IF credentials = None
    THEN [ok |-> FALSE, error |-> APIKeyError]
    ELSE IF credentials[1] # settings.API_KEY[1]
    THEN [ok |-> FALSE, error |-> APIKeyError]
    ELSE [ok |-> TRUE, api_key |-> credentials[1]]

require_api_key(credentials) == get_api_key(credentials)

\* ---------------------------------------------------------------- routes.py

\* The result of a handler body: the list it leaves and its response.
Ok(db, body) == [db |-> db, status_code |-> 200, body |-> body]

NotFound(db) == [db |-> db, status_code |-> 404, body |-> "Item not found"]

\* for i, item in enumerate(items_db): if item.id == item_id
\* The 1-based position of the first match from position i on, 0 for none.
RECURSIVE scan(_, _, _)
scan(db, item_id, i) ==
    IF i > Len(db) THEN 0
    ELSE IF db[i].id = item_id THEN i
    ELSE scan(db, item_id, i + 1)

\* items_db.pop(i)
pop(db, i) == SubSeq(db, 1, i - 1) \o SubSeq(db, i + 1, Len(db))

get_items(db) == Ok(db, db)

get_item(db, item_id) ==
    LET i == scan(db, item_id, 1)
    IN  IF i = 0 THEN NotFound(db) ELSE Ok(db, db[i])

\* Mutant: ids counted from 0.
create_item_zero_based(db, item) ==
    LET new_item == Item(Len(db), item)
    IN  Ok(Append(db, new_item), new_item)

create_item(db, item) ==
    LET new_id == Len(db) + 1
        new_item == Item(new_id, item)
    IN  Ok(Append(db, new_item), new_item)

\* Mutant: the updated item is appended, the matched entry stays.
update_item_appends(db, item_id, item_update) ==
    LET i == scan(db, item_id, 1)
        updated_item == Item(item_id, item_update)
    IN  IF i = 0 THEN NotFound(db)
        ELSE Ok(Append(db, updated_item), updated_item)

update_item(db, item_id, item_update) ==
    LET i == scan(db, item_id, 1)
        updated_item == Item(item_id, item_update)
    IN  IF i = 0 THEN NotFound(db)
        ELSE Ok([db EXCEPT ![i] = updated_item], updated_item)

\* Mutant: items_db.pop() removes the last entry.
delete_item_pops_last(db, item_id) ==
    LET i == scan(db, item_id, 1)
    IN  IF i = 0 THEN NotFound(db)
        ELSE Ok(pop(db, Len(db)), <<"deleted", item_id>>)

delete_item(db, item_id) ==
    LET i == scan(db, item_id, 1)
    IN  IF i = 0 THEN NotFound(db)
        ELSE Ok(pop(db, i), <<"deleted", item_id>>)

root(db) == Ok(db, "Welcome to AWS ECS API Template")

\* ---------------------------------------------------------------- main.py

health_check(db) == Ok(db, "healthy")

\* ---------------------------------------------------------------- requests

\* The clients whose requests may be in flight at the same time.
Clients == {"c1", "c2"}

\* No request of this client is in flight.
Idle == [pc |-> "idle"]

\* Mutant: the handler body runs although the dependency raised.
Depends_after_body(credentials, run) ==
    LET auth == require_api_key(credentials)
    IN  IF auth.ok
        THEN [db |-> run.db, status_code |-> run.status_code,
              body |-> run.body, auth |-> auth, ran |-> TRUE]
        ELSE [db |-> run.db, status_code |-> auth.error.status_code,
              body |-> auth.error.detail, auth |-> auth, ran |-> FALSE]

\* A route declared with "_: str = Depends(require_api_key)": the dependency
\* is resolved first and the handler body (run) is called only when it
\* returned; when it raised, the error is the response.
Depends(credentials, run) ==
    LET auth == require_api_key(credentials)
    IN  IF auth.ok
        THEN [db |-> run.db, status_code |-> run.status_code,
              body |-> run.body, auth |-> auth, ran |-> TRUE]
        ELSE [db |-> items_db, status_code |-> auth.error.status_code,
              body |-> auth.error.detail, auth |-> auth, ran |-> FALSE]

\* A route with no dependency: the handler body always runs.
Open(run) ==
    [db |-> run.db, status_code |-> run.status_code, body |-> run.body,
     auth |-> None, ran |-> TRUE]

\* One request served from start to response.
Serve(op, item_id, item, credentials, out) ==
    /\ items_db' = out.db
    /\ last' = [op |-> op, item_id |-> item_id, item |-> item,
                credentials |-> credentials, auth |-> out.auth,
                ran |-> out.ran, status_code |-> out.status_code,
                body |-> out.body]
    /\ created_ids' =
           IF op = "create_item" /\ out.ran
           THEN Append(created_ids, out.body.id) ELSE created_ids
    /\ deleted' =
           (deleted \/ (op = "delete_item" /\ out.ran /\ out.status_code = 200))
    /\ UNCHANGED <<settings, inflight>>

GuardedOps ==
    {"get_items", "get_item", "create_item", "update_item", "delete_item"}

OpenOps == {"root", "health_check"}

Init ==
    /\ settings \in Settings
    /\ items_db = <<>>
    /\ last = [op |-> "start"]
    /\ created_ids = <<>>
    /\ deleted = FALSE
    /\ inflight = [r \in Clients |-> Idle]

GetRoot ==
    \E c \in Credentials : Serve("root", None, None, c, Open(root(items_db)))

GetHealth ==
    \E c \in Credentials :
        Serve("health_check", None, None, c, Open(health_check(items_db)))

GetItems ==
    \E c \in Credentials :
        Serve("get_items", None, None, c, Depends(c, get_items(items_db)))

GetItem ==
    \E c \in Credentials, id \in ItemIds :
        Serve("get_item", id, None, c, Depends(c, get_item(items_db, id)))

CreateItem ==
    /\ Len(created_ids) < MaxCreates
    /\ \E c \in Credentials, item \in ItemCreate :
           Serve("create_item", None, item, c,
                 Depends(c, create_item(items_db, item)))

UpdateItem ==
    \E c \in Credentials, id \in ItemIds, item \in ItemCreate :
        Serve("update_item", id, item, c,
              Depends(c, update_item(items_db, id, item)))

DeleteItem ==
    \E c \in Credentials, id \in ItemIds :
        Serve("delete_item", id, None, c,
              Depends(c, delete_item(items_db, id)))

Next ==
    \/ GetRoot
    \/ GetHealth
    \/ GetItems
    \/ GetItem
    \/ CreateItem
    \/ UpdateItem
    \/ DeleteItem

Spec == Init /\ [][Next]_vars

\* ---------------------------------------------------------------- concurrency
\* Requests in flight at once.  uvicorn runs the application on one event
\* loop: a request is received, its dependency require_api_key is resolved,
\* then its handler runs.  Every handler of routes.py is an "async def"
\* whose body holds no await, so the event loop runs a body from its first
\* line to its return without running anything of another request.

\* The requests a client sends in the concurrent specification.
ConcCredentials == {None, Some("secret")}

\* The path parameters item_id of the concurrent specification.
ConcItemIds == {1, 2}

\* create_item requests received whose item is not appended yet.
PendingCreates ==
    { r \in Clients :
        /\ inflight[r].pc \in {"depends", "handler", "append"}
        /\ inflight[r].op = "create_item" }

\* A request as the server holds it when it has just been accepted.
Accepted(op, item_id, item, credentials) ==
    [pc |-> "depends", op |-> op, item_id |-> item_id, item |-> item,
     credentials |-> credentials, new_id |-> None, status_code |-> None]

\* The server accepts a request of client r.
Receive(r) ==
    /\ inflight[r].pc = "idle"
    /\ \E c \in ConcCredentials :
          \/ inflight' = [inflight EXCEPT ![r] =
                 Accepted("get_items", None, None, c)]
          \/ \E o \in {"get_item", "delete_item"}, id \in ConcItemIds :
                 inflight' = [inflight EXCEPT ![r] = Accepted(o, id, None, c)]
          \/ \E i \in ItemCreate :
                 /\ Len(created_ids) + Cardinality(PendingCreates) < MaxCreates
                 /\ inflight' = [inflight EXCEPT ![r] =
                        Accepted("create_item", None, i, c)]
          \/ \E id \in ConcItemIds, i \in ItemCreate :
                 inflight' = [inflight EXCEPT ![r] =
                     Accepted("update_item", id, i, c)]
    /\ UNCHANGED <<settings, items_db, last, created_ids, deleted>>

\* Depends(require_api_key) of r's route is resolved: the request goes on to
\* its handler, or ends with the 401 error.
ResolveDepends(r) ==
    /\ inflight[r].pc = "depends"
    /\ LET auth == require_api_key(inflight[r].credentials)
       IN  inflight' = [inflight EXCEPT ![r] =
               IF auth.ok THEN [@ EXCEPT !.pc = "handler"]
               ELSE [@ EXCEPT !.pc = "done",
                              !.status_code = auth.error.status_code]]
    /\ UNCHANGED <<settings, items_db, last, created_ids, deleted>>

\* Mutant: the handler is suspended between len(items_db) and append (an
\* await in the body, or a plain "def" handler run in the thread pool).
RunCreate_suspends(r) ==
    /\ inflight[r].pc \in {"handler", "append"}
    /\ inflight[r].op = "create_item"
    /\ \/ /\ inflight[r].pc = "handler"
          /\ inflight' = [inflight EXCEPT ![r] =
                 [@ EXCEPT !.pc = "append", !.new_id = Len(items_db) + 1]]
          /\ UNCHANGED <<items_db, created_ids>>
       \/ /\ inflight[r].pc = "append"
          /\ items_db' =
                 Append(items_db, Item(inflight[r].new_id, inflight[r].item))
          /\ created_ids' = Append(created_ids, inflight[r].new_id)
          /\ inflight' = [inflight EXCEPT ![r] =
                 [@ EXCEPT !.pc = "done", !.status_code = 200]]
    /\ UNCHANGED <<settings, last, deleted>>

\* The body of create_item runs for r: new_id, append and return in one go.
RunCreate(r) ==
    /\ inflight[r].pc = "handler"
    /\ inflight[r].op = "create_item"
    /\ LET out == create_item(items_db, inflight[r].item)
       IN  /\ items_db' = out.db
           /\ created_ids' = Append(created_ids, out.body.id)
           /\ inflight' = [inflight EXCEPT ![r] =
                  [@ EXCEPT !.pc = "done", !.new_id = out.body.id,
                            !.status_code = out.status_code]]
    /\ UNCHANGED <<settings, last, deleted>>

\* The body of one of the other handlers runs for r.
HandlerOut(q) ==
    CASE q.op = "get_items"   -> get_items(items_db)
      [] q.op = "get_item"    -> get_item(items_db, q.item_id)
      [] q.op = "update_item" -> update_item(items_db, q.item_id, q.item)
      [] q.op = "delete_item" -> delete_item(items_db, q.item_id)

RunOther(r) ==
    /\ inflight[r].pc = "handler"
    /\ inflight[r].op # "create_item"
    /\ LET out == HandlerOut(inflight[r])
       IN  /\ items_db' = out.db
           /\ deleted' = (deleted \/ (inflight[r].op = "delete_item"
                                       /\ out.status_code = 200))
           /\ inflight' = [inflight EXCEPT ![r] =
                  [@ EXCEPT !.pc = "done", !.status_code = out.status_code]]
    /\ UNCHANGED <<settings, last, created_ids>>

\* The response of r's request is sent.
Respond(r) ==
    /\ inflight[r].pc = "done"
    /\ inflight' = [inflight EXCEPT ![r] = Idle]
    /\ UNCHANGED <<settings, items_db, last, created_ids, deleted>>

\* The configurations the concurrent specification starts from.
InitConc ==
    /\ Init
    /\ settings.API_KEY = Some("secret")

NextConc ==
    \E r \in Clients :
        \/ Receive(r)
        \/ ResolveDepends(r)
        \/ RunCreate(r)
        \/ RunOther(r)
        \/ Respond(r)

SpecConc == InitConc /\ [][NextConc]_vars

\* ---------------------------------------------------------------- claims

\* No two entries of db have the same id.
UniqueIds(db) ==
    \A i, j \in 1 .. Len(db) : db[i].id = db[j].id => i = j

\* The configuration lets every request through.
Bypass == ~settings.ENABLE_API_KEY_AUTH \/ settings.API_KEY \in {None, Some("")}

\* C1: get_api_key succeeds exactly when auth is disabled, or no secret is
\* configured (unset or empty), or the presented credential equals the
\* configured secret; otherwise it fails with the 401 error that carries
\* WWW-Authenticate: Bearer.  On bypass it returns "bypass", otherwise the
\* presented credential.
C1_GetApiKey ==
    last.op \in GuardedOps =>
        LET presented == last.credentials
            matches == presented # None /\ presented = settings.API_KEY
        IN  /\ last.auth.ok <=> (Bypass \/ matches)
            /\ (last.auth.ok /\ Bypass) => last.auth.api_key = "bypass"
            /\ (last.auth.ok /\ ~Bypass) => last.auth.api_key = presented[1]
            /\ ~last.auth.ok =>
                   /\ last.auth.error.status_code = 401
                   /\ last.auth.error.headers = "WWW-Authenticate: Bearer"
                   /\ last.status_code = 401

\* C1 witness: a request with a mismatched credential was refused although
\* a prefix of the secret was presented.
C1_Witness ==
    /\ last.op = "get_item"
    /\ settings.ENABLE_API_KEY_AUTH
    /\ settings.API_KEY = Some("secret")
    /\ last.credentials = Some("secre")
    /\ last.status_code = 401

\* C2: in every state reached by create_item, update_item and delete_item
\* calls from the empty registry, no two entries of items_db share an id.
C2_OneItemPerId == UniqueIds(items_db)

\* C3: every create_item call returns an id that no earlier create_item
\* call returned (ids are not reused after deletion).
C3_IdsNotReused ==
    \A m, n \in 1 .. Len(created_ids) :
        created_ids[m] = created_ids[n] => m = n

\* C4: right after create_item returned an item with id k, get_item(k)
\* succeeds and returns an item equal to the one just created.
C4_GetAfterCreate ==
    (last.op = "create_item" /\ last.ran) =>
        LET got == get_item(items_db, last.body.id)
        IN  got.status_code = 200 /\ got.body = last.body

\* C5: right after a successful delete_item(id), get_item(id) fails with
\* 404 and a second delete_item(id) fails with 404 as well.
C5_GoneAfterDelete ==
    (last.op = "delete_item" /\ last.ran /\ last.status_code = 200) =>
        /\ get_item(items_db, last.item_id).status_code = 404
        /\ delete_item(items_db, last.item_id).status_code = 404

\* C6: from the empty registry, as long as no delete_item has succeeded,
\* the n-th create_item call returns id n.
C6_IdsFollowCreationOrder ==
    ~deleted => \A n \in 1 .. Len(created_ids) : created_ids[n] = n

\* C6 witness: several creates and an update, no delete, and the latest
\* create returned the number of creates so far.
C6_Witness ==
    /\ ~deleted
    /\ Len(created_ids) >= 3
    /\ last.op = "create_item"
    /\ last.ran
    /\ last.body.id = Len(created_ids)
    /\ \E i \in 1 .. Len(items_db) : items_db[i].name # last.body.name

\* C7: a successful update_item(id, fields) replaces the first entry with
\* that id, at the same position, by an item with the same id and exactly
\* the supplied name, description and price; the length and every other
\* entry stay as they were, and get_item(id) then returns the updated item.
C7_UpdateInPlace ==
    [][ (last'.op = "update_item" /\ last'.ran /\ last'.status_code = 200) =>
          \E i \in 1 .. Len(items_db) :
              /\ items_db[i].id = last'.item_id
              /\ \A j \in 1 .. (i - 1) : items_db[j].id # last'.item_id
              /\ Len(items_db') = Len(items_db)
              /\ items_db'[i] =
                     [id |-> last'.item_id, name |-> last'.item.name,
                      description |-> last'.item.description,
                      price |-> last'.item.price]
              /\ \A j \in 1 .. Len(items_db) :
                     j # i => items_db'[j] = items_db[j]
              /\ last'.body = items_db'[i]
              /\ get_item(items_db', last'.item_id).status_code = 200
              /\ get_item(items_db', last'.item_id).body = items_db'[i]
      ]_vars

\* C7 witness: an update has rewritten the second of two entries.
C7_Witness ==
    /\ last.op = "update_item"
    /\ last.ran
    /\ last.status_code = 200
    /\ Len(items_db) >= 2
    /\ items_db[1].id # last.item_id
    /\ items_db[2] = last.body
    /\ items_db[2].name = "Widget2"

\* C8: with auth enabled and a non-empty secret configured, an item
\* operation whose credential is missing or differs from the secret ends in
\* 401 without its handler running and with items_db as it was; the root
\* and health endpoints answer 200 whatever the credential and leave
\* items_db as it was.
C8_GuardBeforeRegistry ==
    [][ /\ ( /\ last'.op \in GuardedOps
             /\ settings.ENABLE_API_KEY_AUTH
             /\ settings.API_KEY \notin {None, Some("")}
             /\ last'.credentials # settings.API_KEY )
           => ( /\ last'.status_code = 401
                /\ ~last'.ran
                /\ items_db' = items_db )
        /\ last'.op \in OpenOps
           => ( /\ last'.status_code = 200
                /\ items_db' = items_db )
      ]_vars

\* C8 witness: a create_item request without a credential was refused on a
\* registry that holds an item.
C8_Witness ==
    /\ last.op = "create_item"
    /\ last.credentials = None
    /\ last.status_code = 401
    /\ ~last.ran
    /\ Len(items_db) = 1

\* C9: a successful delete_item(id) removes the first entry with that id
\* and nothing else: the length drops by one and the other entries keep
\* their contents and order; a delete_item(id) that ends in 404 leaves
\* items_db as it was.
C9_DeleteRemovesFirstMatch ==
    [][ /\ (last'.op = "delete_item" /\ last'.ran /\ last'.status_code = 200)
           => \E i \in 1 .. Len(items_db) :
                  /\ items_db[i].id = last'.item_id
                  /\ \A j \in 1 .. (i - 1) : items_db[j].id # last'.item_id
                  /\ Len(items_db') = Len(items_db) - 1
                  /\ \A j \in 1 .. (i - 1) : items_db'[j] = items_db[j]
                  /\ \A j \in i .. (Len(items_db) - 1) :
                         items_db'[j] = items_db[j + 1]
        /\ (last'.op = "delete_item" /\ last'.status_code = 404)
           => items_db' = items_db
      ]_vars

\* C9 witness: a delete removed one entry and a later entry with the same
\* id is still there.
C9_Witness ==
    /\ last.op = "delete_item"
    /\ last.ran
    /\ last.status_code = 200
    /\ Len(items_db) >= 1
    /\ items_db[1].id = last.item_id

\* Two create_item requests that were in flight at once and are both
\* answered.
BothCreated(r1, r2) ==
    /\ r1 # r2
    /\ inflight[r1].pc = "done" /\ inflight[r2].pc = "done"
    /\ inflight[r1].op = "create_item" /\ inflight[r2].op = "create_item"
    /\ inflight[r1].status_code = 200 /\ inflight[r2].status_code = 200

\* C10 as stated: with two create_item requests in flight, the one that
\* runs first only observes len(items_db) and appends in a later step, so
\* that the other can observe the same length in between.
C10_CreatesCanRace ==
    [][ \A r1, r2 \in Clients :
          ( /\ r1 # r2
            /\ inflight[r1].pc = "handler" /\ inflight[r1].op = "create_item"
            /\ inflight[r2].pc = "handler" /\ inflight[r2].op = "create_item"
            /\ inflight'[r1].pc # "handler" )
          => ( /\ items_db' = items_db
               /\ inflight'[r1].pc = "append" )
      ]_vars

\* C10 amended: with two create_item requests in flight at once, no
\* request is ever between its len(items_db) and its append, and as long as
\* no delete_item has succeeded the two return different ids and items_db
\* holds no id twice.
C10_CreatesDoNotRace ==
    /\ \A r \in Clients : inflight[r].pc # "append"
    /\ ~deleted =>
           /\ UniqueIds(items_db)
           /\ \A r1, r2 \in Clients :
                  BothCreated(r1, r2) => inflight[r1].new_id # inflight[r2].new_id

\* C10 witness: two create_item requests were in flight at once and got
\* different ids.
C10_Witness ==
    /\ ~deleted
    /\ BothCreated("c1", "c2")
    /\ inflight["c1"].new_id = 2
    /\ inflight["c2"].new_id = 1
    /\ Len(items_db) = 2

====
